---- MODULE Spec2Model ----
(***************************************************************************)
(* QueryParams (packages/firestore/src/api/observer.ts): the immutable     *)
(* query descriptor, its transitions, accessors, filter selection and its  *)
(* wire and REST renderings.                                               *)
(*                                                                         *)
(* JavaScript values are modelled as strings: "undefined" and "null" are   *)
(* the two JS values of those names, the members of JsNumbers are numbers  *)
(* written in decimal, every other string is a JS string.  Limits are      *)
(* integers.  Objects live in a heap (a sequence of field records); a      *)
(* reference is an index into it.                                          *)
(***************************************************************************)
EXTENDS Naturals, Sequences, FiniteSets, TLC

VARIABLES
  heap,   \* every QueryParams object allocated so far; heap[1] is DEFAULT
  cur,    \* cur[c]: the reference caller c holds (the receiver of its next call)
  hist,   \* hist[i]: the transitions, with arguments, that produced heap[i]
  call,   \* the most recent call: operation, receiver, arguments, outcome
  pre     \* the heap as it was when the most recent call started

vars == <<heap, cur, hist, call, pre>>

-----------------------------------------------------------------------------
(* Bounds and input sets *)

\* longest chain of transitions built from DEFAULT
MaxOps == 3
\* accessors and renderings are called on chains of at most this many transitions
MaxReadOps == 1
\* transitions made by two interleaved callers together
MaxConcOps == 3

JsNumbers == {"5"}
Values == {"undefined", "5"}
Keys == {"undefined", "null", "k1"}
Limits == {2, 3}
Filters == {"undefined", "f"}
Options == {"undefined", "o"}
Pipelines == {"undefined", "p"}
\* the (value, key) arguments of startAt and endAt: a value with each kind of
\* key, and no argument at all
BoundArgs == {a \in Values \X Keys : a[1] = "5" \/ a[2] = "undefined"}
\* the (filter, option) arguments of find: both given or neither
FindArgs == {a \in Filters \X Options : (a[1] = "undefined") <=> (a[2] = "undefined")}

-----------------------------------------------------------------------------
(* Imported names *)

MIN_NAME == "[MIN_NAME]"
MAX_NAME == "[MAX_NAME]"

PRIORITY_INDEX == "PRIORITY_INDEX"
VALUE_INDEX == "VALUE_INDEX"
KEY_INDEX == "KEY_INDEX"
PATH_INDEX == "PathIndex(age)"
Indexes == {PRIORITY_INDEX, VALUE_INDEX, KEY_INDEX, PATH_INDEX}

\* index instanceof PathIndex
IsPathIndex(index) == index = PATH_INDEX

\* Index.toString()
IndexToString(index) ==
  CASE index = PRIORITY_INDEX -> ".priority"
    [] index = VALUE_INDEX -> ".value"
    [] index = KEY_INDEX -> ".key"
    [] OTHER -> "age"

\* stringify of @firebase/util: JSON.stringify
stringify(v) ==
  IF v \in JsNumbers \cup {"null", "undefined"} THEN v ELSE "\"" \o v \o "\""

VIEW_FROM_LEFT == "l"
VIEW_FROM_RIGHT == "r"

-----------------------------------------------------------------------------
(* The object: field initialisers, predicates and accessors *)

\* new QueryParams(): the field initialisers
NewQueryParams ==
  [ limitSet_ |-> FALSE, startSet_ |-> FALSE, startNameSet_ |-> FALSE,
    endSet_ |-> FALSE, endNameSet_ |-> FALSE, findSet_ |-> FALSE,
    aggregateSet_ |-> FALSE,
    limit_ |-> 0, viewFrom_ |-> "",
    indexStartValue_ |-> "null", indexStartName_ |-> "",
    indexEndValue_ |-> "null", indexEndName_ |-> "",
    findFilter_ |-> "null", findOption_ |-> "null",
    aggregatePipeline_ |-> "null",
    index_ |-> PRIORITY_INDEX ]

DEFAULT == NewQueryParams

\* an outcome of a call: a returned value, or the assertion error thrown
Return(v) == [throw |-> FALSE, val |-> v]
AssertionError == [throw |-> TRUE, val |-> "AssertionError"]

hasStart(this) == this.startSet_

\* mutant of isViewFromLeft: no inference of the side from the start bound
isViewFromLeftNoInference(this) == this.viewFrom_ = VIEW_FROM_LEFT

isViewFromLeft(this) ==
  IF this.viewFrom_ = ""
    THEN this.startSet_
    ELSE this.viewFrom_ = VIEW_FROM_LEFT

getIndexStartValue(this) ==
  IF ~this.startSet_ THEN AssertionError ELSE Return(this.indexStartValue_)

\* mutant of getIndexStartName: the assertion is missing
getIndexStartNameNoAssert(this) ==
  IF this.startNameSet_ THEN Return(this.indexStartName_) ELSE Return(MIN_NAME)

getIndexStartName(this) ==
  IF ~this.startSet_ THEN AssertionError
  ELSE IF this.startNameSet_ THEN Return(this.indexStartName_)
  ELSE Return(MIN_NAME)

hasEnd(this) == this.endSet_

hasMongo(this) == this.findSet_ \/ this.aggregateSet_

getIndexEndValue(this) ==
  IF ~this.endSet_ THEN AssertionError ELSE Return(this.indexEndValue_)

getIndexEndName(this) ==
  IF ~this.endSet_ THEN AssertionError
  ELSE IF this.endNameSet_ THEN Return(this.indexEndName_)
  ELSE Return(MAX_NAME)

hasLimit(this) == this.limitSet_

hasAnchoredLimit(this) == this.limitSet_ /\ this.viewFrom_ # ""

getLimit(this) ==
  IF ~this.limitSet_ THEN AssertionError ELSE Return(this.limit_)

getIndex(this) == this.index_

-----------------------------------------------------------------------------
(* Transitions: each returns the fields of the new object *)

copy_(this) ==
  [ NewQueryParams EXCEPT
      !.limitSet_ = this.limitSet_,
      !.limit_ = this.limit_,
      !.startSet_ = this.startSet_,
      !.indexStartValue_ = this.indexStartValue_,
      !.startNameSet_ = this.startNameSet_,
      !.findSet_ = this.findSet_,
      !.indexStartName_ = this.indexStartName_,
      !.endSet_ = this.endSet_,
      !.indexEndValue_ = this.indexEndValue_,
      !.endNameSet_ = this.endNameSet_,
      !.indexEndName_ = this.indexEndName_,
      !.index_ = this.index_,
      !.viewFrom_ = this.viewFrom_,
      !.findFilter_ = this.findFilter_,
      !.findOption_ = this.findOption_,
      !.aggregatePipeline_ = this.aggregatePipeline_ ]

find(this, filter, option) ==
  LET newParams == copy_(this)
      filter1 == IF filter = "undefined" THEN "null" ELSE filter
      option1 == IF option = "undefined" THEN "null" ELSE option
  IN [ newParams EXCEPT
         !.findSet_ = TRUE,
         !.findFilter_ = filter1,
         !.findOption_ = option1 ]

aggregate(this, pipeline) ==
  LET newParams == copy_(this)
      pipeline1 == IF pipeline = "undefined" THEN "null" ELSE pipeline
  IN [ newParams EXCEPT
         !.aggregateSet_ = TRUE,
         !.aggregatePipeline_ = pipeline1 ]

\* mutant of limit: the anchor copied from the receiver is left in place
limitKeepAnchor(this, newLimit) ==
  [ copy_(this) EXCEPT !.limitSet_ = TRUE, !.limit_ = newLimit ]

limit(this, newLimit) ==
  [ copy_(this) EXCEPT
      !.limitSet_ = TRUE, !.limit_ = newLimit, !.viewFrom_ = "" ]

\* mutant of limitToFirst: the anchor is set but limitSet_ is not
limitToFirstNoFlag(this, newLimit) ==
  [ copy_(this) EXCEPT !.limit_ = newLimit, !.viewFrom_ = VIEW_FROM_LEFT ]

limitToFirst(this, newLimit) ==
  [ copy_(this) EXCEPT
      !.limitSet_ = TRUE, !.limit_ = newLimit, !.viewFrom_ = VIEW_FROM_LEFT ]

limitToLast(this, newLimit) ==
  [ copy_(this) EXCEPT
      !.limitSet_ = TRUE, !.limit_ = newLimit, !.viewFrom_ = VIEW_FROM_RIGHT ]

\* mutant of startAt: an omitted key leaves the copied tie-break key in place
startAtKeepKey(this, indexValue, key) ==
  LET newParams == copy_(this)
      indexValue1 == IF indexValue = "undefined" THEN "null" ELSE indexValue
  IN IF key \notin {"null", "undefined"}
       THEN [ newParams EXCEPT
                !.startSet_ = TRUE,
                !.indexStartValue_ = indexValue1,
                !.startNameSet_ = TRUE,
                !.indexStartName_ = key ]
       ELSE [ newParams EXCEPT
                !.startSet_ = TRUE,
                !.indexStartValue_ = indexValue1 ]

startAt(this, indexValue, key) ==
  LET newParams == copy_(this)
      indexValue1 == IF indexValue = "undefined" THEN "null" ELSE indexValue
  IN IF key \notin {"null", "undefined"}     \* key != null
       THEN [ newParams EXCEPT
                !.startSet_ = TRUE,
                !.indexStartValue_ = indexValue1,
                !.startNameSet_ = TRUE,
                !.indexStartName_ = key ]
       ELSE [ newParams EXCEPT
                !.startSet_ = TRUE,
                !.indexStartValue_ = indexValue1,
                !.startNameSet_ = FALSE,
                !.indexStartName_ = "" ]

endAt(this, indexValue, key) ==
  LET newParams == copy_(this)
      indexValue1 == IF indexValue = "undefined" THEN "null" ELSE indexValue
  IN IF key # "undefined"                    \* key !== undefined
       THEN [ newParams EXCEPT
                !.endSet_ = TRUE,
                !.indexEndValue_ = indexValue1,
                !.endNameSet_ = TRUE,
                !.indexEndName_ = key ]
       ELSE [ newParams EXCEPT
                !.endSet_ = TRUE,
                !.indexEndValue_ = indexValue1,
                !.endNameSet_ = FALSE,
                !.indexEndName_ = "" ]

orderBy(this, index) == [ copy_(this) EXCEPT !.index_ = index ]

-----------------------------------------------------------------------------
(* Renderings and filter selection *)

\* {}: an object with no property
EmptyObject == [k \in {} |-> "null"]

\* mutant of getMongoObject: the pipeline is emitted whether set or not
getMongoObjectAlways(this) ==
  LET find_ == IF this.findSet_
                 THEN ("f" :> this.findFilter_) @@ ("p" :> this.findOption_)
                 ELSE EmptyObject
  IN find_ @@ ("a" :> this.aggregatePipeline_)

getMongoObject(this) ==
  LET find_ == IF this.findSet_
                 THEN ("f" :> this.findFilter_) @@ ("p" :> this.findOption_)
                 ELSE EmptyObject
      aggregate_ == IF this.aggregateSet_
                      THEN ("a" :> this.aggregatePipeline_)
                      ELSE EmptyObject
  IN find_ @@ aggregate_

\* mutant of ResolveViewFrom: the anchor is emitted as stored
ResolveViewFromRaw(this) == this.viewFrom_

\* let viewFrom = this.viewFrom_, resolved to a side when it is ''
ResolveViewFrom(this) ==
  IF this.viewFrom_ = ""
    THEN IF isViewFromLeft(this) THEN VIEW_FROM_LEFT ELSE VIEW_FROM_RIGHT
    ELSE this.viewFrom_

getQueryObject(this) ==
  LET start == IF this.startSet_
                 THEN ("sp" :> this.indexStartValue_) @@
                      (IF this.startNameSet_
                         THEN ("sn" :> this.indexStartName_) ELSE EmptyObject)
                 ELSE EmptyObject
      end == IF this.endSet_
               THEN ("ep" :> this.indexEndValue_) @@
                    (IF this.endNameSet_
                       THEN ("en" :> this.indexEndName_) ELSE EmptyObject)
               ELSE EmptyObject
      lim == IF this.limitSet_
               THEN ("l" :> this.limit_) @@ ("vf" :> ResolveViewFrom(this))
               ELSE EmptyObject
      index == IF this.index_ # PRIORITY_INDEX
                 THEN ("i" :> IndexToString(this.index_))
                 ELSE EmptyObject
  IN start @@ end @@ lim @@ index

\* mutant of loadsAllData: the limit is not looked at
loadsAllDataIgnoringLimit(this) ==
  /\ ~(this.startSet_ \/ this.endSet_)
  /\ ~this.findSet_
  /\ ~this.aggregateSet_

loadsAllData(this) ==
  /\ ~(this.startSet_ \/ this.endSet_ \/ this.limitSet_)
  /\ ~this.findSet_
  /\ ~this.aggregateSet_

\* mutant of isDefault: the index is not looked at
isDefaultIgnoringIndex(this) == loadsAllData(this)

isDefault(this) == loadsAllData(this) /\ this.index_ = PRIORITY_INDEX

\* the filter constructed: its class and its constructor argument
getNodeFilter(this) ==
  IF loadsAllData(this)
    THEN [kind |-> "IndexedFilter", index |-> getIndex(this)]
  ELSE IF hasLimit(this)
    THEN [kind |-> "LimitedFilter", params |-> this]
  ELSE [kind |-> "RangedFilter", params |-> this]

\* mutant of RestLimit: both parameters are emitted
RestLimitBoth(this) ==
  IF this.limitSet_
    THEN ("limitToFirst" :> this.limit_) @@ ("limitToLast" :> this.limit_)
    ELSE EmptyObject

\* mutant of RestLimit: the side is the stored anchor, not isViewFromLeft()
RestLimitByAnchor(this) ==
  IF this.limitSet_
    THEN IF this.viewFrom_ = VIEW_FROM_LEFT
           THEN ("limitToFirst" :> this.limit_)
           ELSE ("limitToLast" :> this.limit_)
    ELSE EmptyObject

\* if (this.limitSet_) { ... }: the limit parameter of the REST rendering
RestLimit(this) ==
  IF this.limitSet_
    THEN IF isViewFromLeft(this)
           THEN ("limitToFirst" :> this.limit_)
           ELSE ("limitToLast" :> this.limit_)
    ELSE EmptyObject

toRestQueryStringParameters(this) ==
  LET recognized == this.index_ \in {PRIORITY_INDEX, VALUE_INDEX, KEY_INDEX}
                      \/ IsPathIndex(this.index_)
      orderBy_ == CASE this.index_ = PRIORITY_INDEX -> "$priority"
                    [] this.index_ = VALUE_INDEX -> "$value"
                    [] this.index_ = KEY_INDEX -> "$key"
                    [] OTHER -> IndexToString(this.index_)
      start == IF this.startSet_
                 THEN ("startAt" :>
                        (IF this.startNameSet_
                           THEN stringify(this.indexStartValue_) \o "," \o
                                stringify(this.indexStartName_)
                           ELSE stringify(this.indexStartValue_)))
                 ELSE EmptyObject
      end == IF this.endSet_
               THEN ("endAt" :>
                      (IF this.endNameSet_
                         THEN stringify(this.indexEndValue_) \o "," \o
                              stringify(this.indexEndName_)
                         ELSE stringify(this.indexEndValue_)))
               ELSE EmptyObject
      lim == RestLimit(this)
  IN IF isDefault(this) THEN Return(EmptyObject)
     ELSE IF ~recognized THEN AssertionError
     ELSE Return(("orderBy" :> stringify(orderBy_)) @@ start @@ end @@ lim)

-----------------------------------------------------------------------------
(* State machine: callers chain transitions from DEFAULT and read the result *)

Callers == {"a", "b"}
\* the callers that act under Spec
Solo == {"a"}

TransitionOps ==
  {"startAt", "endAt", "limit", "limitToFirst", "limitToLast", "orderBy",
   "find", "aggregate"}

\* mutant of Allocate: const copy = this, the transition writes the receiver
AllocateAliased(h, this, newParams) ==
  Append([h EXCEPT ![this] = newParams], newParams)

\* const copy = new QueryParams(): the new object is a fresh one, appended to
\* the heap; the receiver `this` stays as it is
Allocate(h, this, newParams) == Append(h, newParams)

Init ==
  /\ heap = <<DEFAULT>>
  /\ cur = [c \in Callers |-> 1]
  /\ hist = << <<>> >>
  /\ call = [op |-> "new", caller |-> "", recv |-> 1, a1 |-> "", a2 |-> "",
             ret |-> Return(1)]
  /\ pre = <<DEFAULT>>

\* caller c calls transition op(a1, a2) on the descriptor it holds and keeps
\* the descriptor returned
Transition(c, op, a1, a2, newParams) ==
  /\ Len(hist[cur[c]]) < MaxOps
  /\ pre' = heap
  /\ heap' = Allocate(heap, cur[c], newParams)
  /\ hist' = Append(hist, Append(hist[cur[c]], [op |-> op, a1 |-> a1, a2 |-> a2]))
  /\ cur' = [cur EXCEPT ![c] = Len(heap) + 1]
  /\ call' = [op |-> op, caller |-> c, recv |-> cur[c], a1 |-> a1, a2 |-> a2,
              ret |-> Return(Len(heap) + 1)]

\* caller c calls accessor or rendering op on the descriptor it holds
Read(c, op, outcome) ==
  /\ Len(hist[cur[c]]) <= MaxReadOps
  /\ pre' = heap
  /\ call' = [op |-> op, caller |-> c, recv |-> cur[c], a1 |-> "", a2 |-> "",
              ret |-> outcome]
  /\ UNCHANGED <<heap, cur, hist>>

StartAt(c) ==
  \E a \in BoundArgs :
    Transition(c, "startAt", a[1], a[2], startAt(heap[cur[c]], a[1], a[2]))

EndAt(c) ==
  \E a \in BoundArgs :
    Transition(c, "endAt", a[1], a[2], endAt(heap[cur[c]], a[1], a[2]))

Limit(c) ==
  \E n \in Limits : Transition(c, "limit", n, "", limit(heap[cur[c]], n))

LimitToFirst(c) ==
  \E n \in Limits :
    Transition(c, "limitToFirst", n, "", limitToFirst(heap[cur[c]], n))

LimitToLast(c) ==
  \E n \in Limits :
    Transition(c, "limitToLast", n, "", limitToLast(heap[cur[c]], n))

OrderBy(c) ==
  \E i \in Indexes : Transition(c, "orderBy", i, "", orderBy(heap[cur[c]], i))

Find(c) ==
  \E a \in FindArgs :
    Transition(c, "find", a[1], a[2], find(heap[cur[c]], a[1], a[2]))

Aggregate(c) ==
  \E p \in Pipelines :
    Transition(c, "aggregate", p, "", aggregate(heap[cur[c]], p))

HasStart(c) == Read(c, "hasStart", Return(hasStart(heap[cur[c]])))
IsViewFromLeft(c) == Read(c, "isViewFromLeft", Return(isViewFromLeft(heap[cur[c]])))
GetIndexStartValue(c) == Read(c, "getIndexStartValue", getIndexStartValue(heap[cur[c]]))
GetIndexStartName(c) == Read(c, "getIndexStartName", getIndexStartName(heap[cur[c]]))
HasEnd(c) == Read(c, "hasEnd", Return(hasEnd(heap[cur[c]])))
HasMongo(c) == Read(c, "hasMongo", Return(hasMongo(heap[cur[c]])))
GetIndexEndValue(c) == Read(c, "getIndexEndValue", getIndexEndValue(heap[cur[c]]))
GetIndexEndName(c) == Read(c, "getIndexEndName", getIndexEndName(heap[cur[c]]))
HasLimit(c) == Read(c, "hasLimit", Return(hasLimit(heap[cur[c]])))
HasAnchoredLimit(c) == Read(c, "hasAnchoredLimit", Return(hasAnchoredLimit(heap[cur[c]])))
GetLimit(c) == Read(c, "getLimit", getLimit(heap[cur[c]]))
GetIndex(c) == Read(c, "getIndex", Return(getIndex(heap[cur[c]])))
GetMongoObject(c) == Read(c, "getMongoObject", Return(getMongoObject(heap[cur[c]])))
GetQueryObject(c) == Read(c, "getQueryObject", Return(getQueryObject(heap[cur[c]])))
LoadsAllData(c) == Read(c, "loadsAllData", Return(loadsAllData(heap[cur[c]])))
IsDefault(c) == Read(c, "isDefault", Return(isDefault(heap[cur[c]])))
GetNodeFilter(c) == Read(c, "getNodeFilter", Return(getNodeFilter(heap[cur[c]])))
ToRestQueryStringParameters(c) ==
  Read(c, "toRestQueryStringParameters", toRestQueryStringParameters(heap[cur[c]]))

Step(c) ==
  \/ StartAt(c)
  \/ EndAt(c)
  \/ Limit(c)
  \/ LimitToFirst(c)
  \/ LimitToLast(c)
  \/ OrderBy(c)
  \/ Find(c)
  \/ Aggregate(c)
  \/ HasStart(c)
  \/ IsViewFromLeft(c)
  \/ GetIndexStartValue(c)
  \/ GetIndexStartName(c)
  \/ HasEnd(c)
  \/ HasMongo(c)
  \/ GetIndexEndValue(c)
  \/ GetIndexEndName(c)
  \/ HasLimit(c)
  \/ HasAnchoredLimit(c)
  \/ GetLimit(c)
  \/ GetIndex(c)
  \/ GetMongoObject(c)
  \/ GetQueryObject(c)
  \/ LoadsAllData(c)
  \/ IsDefault(c)
  \/ GetNodeFilter(c)
  \/ ToRestQueryStringParameters(c)

Next == \E c \in Solo : Step(c)

Spec == Init /\ [][Next]_vars

-----------------------------------------------------------------------------
(* Vocabulary of the properties *)

Refs == DOMAIN heap

Fields == DOMAIN NewQueryParams

\* the fields a transition assigns after copy_
FieldsSetBy(op) ==
  CASE op = "startAt" ->
         {"startSet_", "indexStartValue_", "startNameSet_", "indexStartName_"}
    [] op = "endAt" ->
         {"endSet_", "indexEndValue_", "endNameSet_", "indexEndName_"}
    [] op \in {"limit", "limitToFirst", "limitToLast"} ->
         {"limitSet_", "limit_", "viewFrom_"}
    [] op = "orderBy" -> {"index_"}
    [] op = "find" -> {"findSet_", "findFilter_", "findOption_"}
    [] op = "aggregate" -> {"aggregateSet_", "aggregatePipeline_"}
    [] OTHER -> {}

\* some transition of ops is in the chain that produced heap[i]
Applied(i, ops) == \E j \in DOMAIN hist[i] : hist[i][j].op \in ops

\* the position in chain h of its last transition of ops, 0 if there is none
RECURSIVE LastOfUpTo(_, _, _)
LastOfUpTo(h, ops, j) ==
  IF j = 0 \/ h[j].op \in ops THEN j ELSE LastOfUpTo(h, ops, j - 1)

LastOf(h, ops) == LastOfUpTo(h, ops, Len(h))

SameOutcome(x, y) == x.throw = y.throw /\ (~x.throw => x.val = y.val)

SameFilter(x, y) ==
  /\ x.kind = y.kind
  /\ x.kind = "IndexedFilter" => x.index = y.index
  /\ x.kind # "IndexedFilter" => x.params = y.params

\* every predicate, accessor and rendering gives the same result on d and e
SameObservations(d, e) ==
  /\ hasStart(d) = hasStart(e)
  /\ hasEnd(d) = hasEnd(e)
  /\ hasLimit(d) = hasLimit(e)
  /\ hasAnchoredLimit(d) = hasAnchoredLimit(e)
  /\ hasMongo(d) = hasMongo(e)
  /\ loadsAllData(d) = loadsAllData(e)
  /\ isDefault(d) = isDefault(e)
  /\ isViewFromLeft(d) = isViewFromLeft(e)
  /\ getIndex(d) = getIndex(e)
  /\ SameOutcome(getIndexStartValue(d), getIndexStartValue(e))
  /\ SameOutcome(getIndexStartName(d), getIndexStartName(e))
  /\ SameOutcome(getIndexEndValue(d), getIndexEndValue(e))
  /\ SameOutcome(getIndexEndName(d), getIndexEndName(e))
  /\ SameOutcome(getLimit(d), getLimit(e))
  /\ SameFilter(getNodeFilter(d), getNodeFilter(e))
  /\ getQueryObject(d) = getQueryObject(e)
  /\ getMongoObject(d) = getMongoObject(e)
  /\ SameOutcome(toRestQueryStringParameters(d), toRestQueryStringParameters(e))

-----------------------------------------------------------------------------
(* C1: every transition returns a descriptor that equals its receiver in   *)
(* every field except the fields this one transition sets: the set-flag    *)
(* and value of start, end, limit, anchor, index, find and aggregate that  *)
(* the transition does not name are carried over unchanged.                *)
C1_TransitionFrame ==
  call.op \in TransitionOps =>
    \A f \in Fields \ FieldsSetBy(call.op) :
      heap[call.ret.val][f] = pre[call.recv][f]

(* C2: loadsAllData() is true of a descriptor if and only if none of       *)
(* startAt, endAt, limit, limitToFirst, limitToLast, find, aggregate was   *)
(* applied anywhere in the chain of transitions that produced it.          *)
C2_LoadsAllDataIffNothingApplied ==
  \A i \in Refs :
    loadsAllData(heap[i]) <=>
      ~Applied(i, {"startAt", "endAt", "limit", "limitToFirst", "limitToLast",
                   "find", "aggregate"})

(* C3: a call leaves its receiver unchanged: each predicate, accessor and   *)
(* rendering of it gives the same result after the call as before it; and  *)
(* every other descriptor that existed before the call still exists with   *)
(* the fields it had.                                                      *)
C3_ReceiverUnchanged ==
  /\ DOMAIN pre \subseteq DOMAIN heap
  /\ SameObservations(heap[call.recv], pre[call.recv])
  /\ \A i \in DOMAIN pre : heap[i] = pre[i]

\* a transition has returned a descriptor that differs from its receiver,
\* itself the result of an earlier transition
C3_Witness ==
  /\ call.op \in TransitionOps
  /\ call.recv > 1
  /\ ~SameObservations(heap[call.ret.val], heap[call.recv])

-----------------------------------------------------------------------------
(* C4: endAt is the mirror image of startAt: endAt(value, key) marks the   *)
(* end tie-break key as explicitly set exactly when startAt(value, key)    *)
(* marks the start key as explicitly set, so that an absent or null key    *)
(* leaves the end key unset: getIndexEndName() returns the maximum         *)
(* sentinel and neither rendering carries an end key.                      *)
C4_EndAtMirrorsStartAt ==
  call.op = "endAt" =>
    LET d == heap[call.ret.val]
        mirror == startAt(pre[call.recv], call.a1, call.a2)
    IN /\ d.endNameSet_ = mirror.startNameSet_
       /\ call.a2 \in {"undefined", "null"} =>
            /\ getIndexEndName(d) = Return(MAX_NAME)
            /\ "en" \notin DOMAIN getQueryObject(d)
            /\ toRestQueryStringParameters(d).val["endAt"] =
                 stringify(d.indexEndValue_)

-----------------------------------------------------------------------------
LimitOps == {"limit", "limitToFirst", "limitToLast"}

\* the last limit transition of the chain that produced heap[i], "" if none
LastLimitOp(i) ==
  LET j == LastOf(hist[i], LimitOps)
  IN IF j = 0 THEN "" ELSE hist[i][j].op

\* the limit given to the last limit transition of that chain
LastLimitArg(i) == hist[i][LastOf(hist[i], LimitOps)].a1

(* C5: isViewFromLeft() is (anchor = left) when the most recent limit      *)
(* transition was limitToFirst or limitToLast, and hasStart() otherwise;   *)
(* with a start bound, no end bound and an unanchored limit n it is true   *)
(* and getLimit() is n; with an unanchored limit and no start bound it is  *)
(* false.  The isViewFromLeft call returns that value.                     *)
C5_ViewFromLeft ==
  /\ \A i \in Refs :
       LET d == heap[i]
       IN /\ LastLimitOp(i) = "limitToFirst" => isViewFromLeft(d)
          /\ LastLimitOp(i) = "limitToLast" => ~isViewFromLeft(d)
          /\ LastLimitOp(i) \in {"", "limit"} =>
               isViewFromLeft(d) = hasStart(d)
          /\ ( /\ LastLimitOp(i) = "limit"
               /\ Applied(i, {"startAt"})
               /\ ~Applied(i, {"endAt"}) ) =>
               /\ isViewFromLeft(d)
               /\ getLimit(d) = Return(LastLimitArg(i))
          /\ (LastLimitOp(i) = "limit" /\ ~Applied(i, {"startAt"})) =>
               ~isViewFromLeft(d)
  /\ call.op = "isViewFromLeft" =>
       call.ret = Return(IF LastLimitOp(call.recv) \in {"", "limit"}
                           THEN hasStart(heap[call.recv])
                           ELSE LastLimitOp(call.recv) = "limitToFirst")

\* startAt then limit(n), no endAt: viewed from the left, limit n
C5_Witness ==
  \E i \in Refs :
    /\ LastLimitOp(i) = "limit"
    /\ Applied(i, {"startAt"})
    /\ ~Applied(i, {"endAt"})
    /\ isViewFromLeft(heap[i])
    /\ getLimit(heap[i]) = Return(3)

-----------------------------------------------------------------------------
WireKeys == {"sp", "sn", "ep", "en", "l", "vf", "i"}
MongoKeys == {"f", "p", "a"}

(* C6: a field appears in the wire rendering of a descriptor if and only   *)
(* if its predicate is true on the descriptor: start value iff hasStart,   *)
(* start key iff the start key is set, end value iff hasEnd, end key iff   *)
(* the end key is set, limit and view-from iff hasLimit, find filter and   *)
(* find option iff find is set, aggregate pipeline iff aggregate is set;   *)
(* a field whose predicate is false is omitted from the object.            *)
C6_FieldIffPredicate ==
  \A i \in Refs :
    LET d == heap[i]
        q == getQueryObject(d)
        m == getMongoObject(d)
    IN /\ DOMAIN q \subseteq WireKeys
       /\ DOMAIN m \subseteq MongoKeys
       /\ "sp" \in DOMAIN q <=> hasStart(d)
       /\ "sn" \in DOMAIN q <=> (hasStart(d) /\ d.startNameSet_)
       /\ d.startNameSet_ => hasStart(d)
       /\ "ep" \in DOMAIN q <=> hasEnd(d)
       /\ "en" \in DOMAIN q <=> (hasEnd(d) /\ d.endNameSet_)
       /\ d.endNameSet_ => hasEnd(d)
       /\ "l" \in DOMAIN q <=> hasLimit(d)
       /\ "vf" \in DOMAIN q <=> hasLimit(d)
       /\ "f" \in DOMAIN m <=> d.findSet_
       /\ "p" \in DOMAIN m <=> d.findSet_
       /\ "a" \in DOMAIN m <=> d.aggregateSet_
       /\ hasMongo(d) <=> (m # EmptyObject)

\* a descriptor with a start value but no start key, a limit and a find
\* filter, and neither end bound nor aggregate pipeline
C6_Witness ==
  \E i \in Refs :
    /\ DOMAIN getQueryObject(heap[i]) = {"sp", "l", "vf"}
    /\ DOMAIN getMongoObject(heap[i]) = {"f", "p"}

(* C7: for a descriptor with a limit the wire object's view-from token is  *)
(* 'l' or 'r', never the unset value, and it is 'l' if and only if         *)
(* isViewFromLeft() holds: startAt(5).limit(3) renders 'l', limit(3)       *)
(* alone renders 'r'.                                                      *)
C7_ViewFromToken ==
  \A i \in Refs :
    LET d == heap[i]
        q == getQueryObject(d)
    IN hasLimit(d) =>
         /\ q["vf"] \in {VIEW_FROM_LEFT, VIEW_FROM_RIGHT}
         /\ q["vf"] = VIEW_FROM_LEFT <=> isViewFromLeft(d)
         /\ (LastLimitOp(i) = "limit" /\ Applied(i, {"startAt"})) =>
              q["vf"] = "l"
         /\ (LastLimitOp(i) = "limit" /\ ~Applied(i, {"startAt"})) =>
              q["vf"] = "r"

\* startAt(5).limit(3) has rendered 'l'
C7_Witness ==
  \E i \in Refs :
    /\ Len(hist[i]) = 2
    /\ hist[i][1].op = "startAt" /\ hist[i][1].a1 = "5"
    /\ hist[i][2].op = "limit" /\ hist[i][2].a1 = 3
    /\ getQueryObject(heap[i])["vf"] = "l"

-----------------------------------------------------------------------------
(* C8: getNodeFilter() maps every descriptor to exactly one strategy:      *)
(* full-scan over the index if loadsAllData(), limited-window if not       *)
(* loadsAllData() and hasLimit(), ranged otherwise; so limited-window is   *)
(* chosen if and only if hasLimit(), whatever bounds or legacy modes are   *)
(* set, and full-scan is never chosen for a descriptor with a bound, a     *)
(* limit or a legacy-mode flag.                                            *)
C8_FilterSelection ==
  \A i \in Refs :
    LET d == heap[i]
        filter == getNodeFilter(d)
    IN /\ filter.kind \in {"IndexedFilter", "LimitedFilter", "RangedFilter"}
       /\ filter.kind = "LimitedFilter" <=> hasLimit(d)
       /\ filter.kind = "IndexedFilter" <=>
            ~(hasStart(d) \/ hasEnd(d) \/ hasLimit(d) \/ hasMongo(d))
       /\ filter.kind = "IndexedFilter" => filter.index = getIndex(d)
       /\ filter.kind # "IndexedFilter" => filter.params = d
       /\ (call.op = "getNodeFilter" /\ call.recv = i) =>
            SameFilter(call.ret.val, filter)

\* limited-window chosen for a descriptor that also has both bounds
C8_Witness ==
  \E i \in Refs :
    /\ hasStart(heap[i]) /\ hasEnd(heap[i]) /\ hasLimit(heap[i])
    /\ getNodeFilter(heap[i]).kind = "LimitedFilter"

-----------------------------------------------------------------------------
FailingAccessors ==
  {"getIndexStartValue", "getIndexStartName", "getIndexEndValue",
   "getIndexEndName", "getLimit"}

(* C9: getIndexStartValue() and getIndexStartName() fail if and only if    *)
(* hasStart() is false, getIndexEndValue() and getIndexEndName() if and    *)
(* only if hasEnd() is false, getLimit() if and only if hasLimit() is      *)
(* false; a failing call returns no value and changes no descriptor, and   *)
(* no other operation fails.                                               *)
C9_AccessorsFailIffUnset ==
  /\ \A i \in Refs :
       LET d == heap[i]
       IN /\ getIndexStartValue(d).throw <=> ~hasStart(d)
          /\ getIndexStartName(d).throw <=> ~hasStart(d)
          /\ getIndexEndValue(d).throw <=> ~hasEnd(d)
          /\ getIndexEndName(d).throw <=> ~hasEnd(d)
          /\ getLimit(d).throw <=> ~hasLimit(d)
          /\ ~toRestQueryStringParameters(d).throw
  /\ call.op = "getIndexStartValue" =>
       (call.ret.throw <=> ~hasStart(heap[call.recv]))
  /\ call.op = "getIndexStartName" =>
       (call.ret.throw <=> ~hasStart(heap[call.recv]))
  /\ call.op = "getIndexEndValue" =>
       (call.ret.throw <=> ~hasEnd(heap[call.recv]))
  /\ call.op = "getIndexEndName" =>
       (call.ret.throw <=> ~hasEnd(heap[call.recv]))
  /\ call.op = "getLimit" =>
       (call.ret.throw <=> ~hasLimit(heap[call.recv]))
  /\ call.ret.throw =>
       /\ call.op \in FailingAccessors
       /\ call.ret = AssertionError
       /\ heap = pre

\* getIndexStartValue() has failed on DEFAULT
C9_Witness ==
  /\ call.op = "getIndexStartValue"
  /\ call.recv = 1
  /\ call.ret.throw

-----------------------------------------------------------------------------
(* C10: the latest startAt of a chain alone decides the start tie-break    *)
(* key: if it omitted the key, getIndexStartName() returns the minimum     *)
(* sentinel, even when an earlier startAt supplied a key; if it supplied   *)
(* a key, that key is returned as given.  Likewise for endAt and           *)
(* getIndexEndName() with the maximum sentinel.                            *)
C10_LatestBoundDecidesKey ==
  \A i \in Refs :
    LET d == heap[i]
        s == LastOf(hist[i], {"startAt"})
        e == LastOf(hist[i], {"endAt"})
    IN /\ s > 0 =>
            /\ hist[i][s].a2 = "undefined" =>
                 getIndexStartName(d) = Return(MIN_NAME)
            /\ hist[i][s].a2 \notin {"undefined", "null"} =>
                 getIndexStartName(d) = Return(hist[i][s].a2)
       /\ e > 0 =>
            /\ hist[i][e].a2 = "undefined" =>
                 getIndexEndName(d) = Return(MAX_NAME)
            /\ hist[i][e].a2 \notin {"undefined", "null"} =>
                 getIndexEndName(d) = Return(hist[i][e].a2)

\* startAt with a key, then startAt without: the minimum sentinel is back,
\* and the same for endAt
C10_Witness ==
  \E i \in Refs :
    /\ Len(hist[i]) = 3
    /\ hist[i][1].op = "startAt" /\ hist[i][1].a2 = "k1"
    /\ hist[i][2].op = "endAt" /\ hist[i][2].a2 = "k1"
    /\ hist[i][3].op = "startAt" /\ hist[i][3].a2 = "undefined"
    /\ getIndexStartName(heap[i]) = Return(MIN_NAME)
    /\ getIndexEndName(heap[i]) = Return("k1")

-----------------------------------------------------------------------------
(* C11: hasAnchoredLimit() is true if and only if the most recent limit    *)
(* transition of the chain was limitToFirst or limitToLast: limit(n)       *)
(* clears an anchor set earlier, limitToFirst(n) sets anchor left,         *)
(* limitToLast(n) sets anchor right, and a transition other than these     *)
(* three changes neither the anchor nor the limit.                         *)
C11_AnchoredIffLastLimitAnchored ==
  /\ \A i \in Refs :
       LET d == heap[i]
       IN /\ hasAnchoredLimit(d) <=>
               LastLimitOp(i) \in {"limitToFirst", "limitToLast"}
          /\ LastLimitOp(i) = "limit" => d.viewFrom_ = ""
          /\ LastLimitOp(i) = "limitToFirst" => d.viewFrom_ = VIEW_FROM_LEFT
          /\ LastLimitOp(i) = "limitToLast" => d.viewFrom_ = VIEW_FROM_RIGHT
          /\ hasLimit(d) <=> LastLimitOp(i) # ""
          /\ hasLimit(d) => d.limit_ = LastLimitArg(i)
  /\ call.op \in TransitionOps \ LimitOps =>
       /\ heap[call.ret.val].viewFrom_ = pre[call.recv].viewFrom_
       /\ heap[call.ret.val].limit_ = pre[call.recv].limit_
       /\ heap[call.ret.val].limitSet_ = pre[call.recv].limitSet_
  /\ call.op = "hasAnchoredLimit" =>
       call.ret = Return(LastLimitOp(call.recv) \in {"limitToFirst", "limitToLast"})

\* limit(n) after limitToFirst has cleared the anchor, and a transition that
\* is no limit transition has kept it cleared
C11_Witness ==
  \E i \in Refs :
    /\ Len(hist[i]) = 3
    /\ hist[i][1].op = "limitToFirst"
    /\ hist[i][2].op = "limit"
    /\ hist[i][3].op = "startAt"
    /\ hasLimit(heap[i])
    /\ ~hasAnchoredLimit(heap[i])

-----------------------------------------------------------------------------
(* C12: the REST parameter set of a descriptor is empty if and only if     *)
(* isDefault() holds, that is loadsAllData() and the index is the          *)
(* priority index; otherwise it contains an orderBy parameter (the value   *)
(* index renders as "$value").  DEFAULT satisfies isDefault() and renders  *)
(* the empty set whatever transitions have been applied to it and to its   *)
(* descendants.                                                            *)
C12_RestEmptyIffDefault ==
  /\ \A i \in Refs :
       LET d == heap[i]
           rest == toRestQueryStringParameters(d)
           o == LastOf(hist[i], {"orderBy"})
       IN /\ ~rest.throw
          /\ isDefault(d) <=> (loadsAllData(d) /\ getIndex(d) = PRIORITY_INDEX)
          /\ rest.val = EmptyObject <=> isDefault(d)
          /\ ~isDefault(d) => "orderBy" \in DOMAIN rest.val
          /\ (o > 0 /\ hist[i][o].a1 = VALUE_INDEX) =>
               /\ ~isDefault(d)
               /\ "orderBy" \in DOMAIN rest.val
               /\ rest.val["orderBy"] = "\"$value\""
  /\ heap[1] = DEFAULT
  /\ isDefault(heap[1])
  /\ toRestQueryStringParameters(heap[1]) = Return(EmptyObject)

\* orderBy(VALUE_INDEX) applied to DEFAULT and a second transition to the
\* result: both render orderBy, DEFAULT still renders nothing
C12_Witness ==
  /\ Len(heap) = 3
  /\ hist[2][1].op = "orderBy"
  /\ hist[2][1].a1 = VALUE_INDEX
  /\ toRestQueryStringParameters(heap[2]).val = ("orderBy" :> "\"$value\"")
  /\ "orderBy" \in DOMAIN toRestQueryStringParameters(heap[3]).val
  /\ toRestQueryStringParameters(heap[1]).val = EmptyObject

-----------------------------------------------------------------------------
(* C13: the REST parameter set contains exactly one of limitToFirst and    *)
(* limitToLast when hasLimit() is true and neither when it is false; the   *)
(* one present is limitToFirst if and only if isViewFromLeft() is true,    *)
(* and its value is the limit given to the most recent limit transition.   *)
C13_RestLimitParameter ==
  \A i \in Refs :
    LET d == heap[i]
        rest == toRestQueryStringParameters(d).val
        first == "limitToFirst" \in DOMAIN rest
        last == "limitToLast" \in DOMAIN rest
    IN /\ ~hasLimit(d) => (~first /\ ~last)
       /\ hasLimit(d) =>
            /\ first # last
            /\ first <=> isViewFromLeft(d)
            /\ first => rest["limitToFirst"] = LastLimitArg(i)
            /\ last => rest["limitToLast"] = LastLimitArg(i)
       /\ LastLimitOp(i) = "limitToFirst" => first
       /\ LastLimitOp(i) = "limitToLast" => last

\* limitToLast(2) then limitToFirst(3): limitToFirst = 3 alone is rendered
C13_Witness ==
  \E i \in Refs :
    /\ Len(hist[i]) = 2
    /\ hist[i][1].op = "limitToLast" /\ hist[i][1].a1 = 2
    /\ hist[i][2].op = "limitToFirst" /\ hist[i][2].a1 = 3
    /\ toRestQueryStringParameters(heap[i]).val =
         ("orderBy" :> "\"$priority\"") @@ ("limitToFirst" :> 3)

-----------------------------------------------------------------------------
(* Two callers share DEFAULT and interleave their chains and reads *)

ConcTransition(c, op, a1, a2, newParams) ==
  /\ Len(heap) <= MaxConcOps
  /\ Transition(c, op, a1, a2, newParams)

ConcStartAt(c) ==
  ConcTransition(c, "startAt", "5", "k1", startAt(heap[cur[c]], "5", "k1"))

ConcEndAt(c) ==
  ConcTransition(c, "endAt", "5", "undefined",
                 endAt(heap[cur[c]], "5", "undefined"))

ConcLimit(c) == ConcTransition(c, "limit", 3, "", limit(heap[cur[c]], 3))

ConcOrderBy(c) ==
  ConcTransition(c, "orderBy", VALUE_INDEX, "",
                 orderBy(heap[cur[c]], VALUE_INDEX))

ConcAggregate(c) ==
  ConcTransition(c, "aggregate", "p", "", aggregate(heap[cur[c]], "p"))

ConcStep(c) ==
  \/ ConcStartAt(c)
  \/ ConcEndAt(c)
  \/ ConcLimit(c)
  \/ ConcOrderBy(c)
  \/ ConcAggregate(c)
  \/ IsViewFromLeft(c)
  \/ GetLimit(c)
  \/ GetMongoObject(c)
  \/ GetQueryObject(c)
  \/ ToRestQueryStringParameters(c)

NextConc == \E c \in Callers : ConcStep(c)

SpecConc == Init /\ [][NextConc]_vars

\* the transition recorded in entry e of a chain, applied to d
ApplyEntry(d, e) ==
  CASE e.op = "startAt" -> startAt(d, e.a1, e.a2)
    [] e.op = "endAt" -> endAt(d, e.a1, e.a2)
    [] e.op = "limit" -> limit(d, e.a1)
    [] e.op = "limitToFirst" -> limitToFirst(d, e.a1)
    [] e.op = "limitToLast" -> limitToLast(d, e.a1)
    [] e.op = "orderBy" -> orderBy(d, e.a1)
    [] e.op = "find" -> find(d, e.a1, e.a2)
    [] e.op = "aggregate" -> aggregate(d, e.a1)

\* the descriptor chain h gives when it runs alone, from a DEFAULT that no
\* one else touches
RECURSIVE Replay(_)
Replay(h) ==
  IF h = <<>>
    THEN DEFAULT
    ELSE ApplyEntry(Replay(SubSeq(h, 1, Len(h) - 1)), h[Len(h)])

\* what read op returns on descriptor d
ReadAlone(op, d) ==
  CASE op = "isViewFromLeft" -> Return(isViewFromLeft(d))
    [] op = "getLimit" -> getLimit(d)
    [] op = "getMongoObject" -> Return(getMongoObject(d))
    [] op = "getQueryObject" -> Return(getQueryObject(d))
    [] op = "toRestQueryStringParameters" -> toRestQueryStringParameters(d)

ConcReads ==
  {"isViewFromLeft", "getLimit", "getMongoObject", "getQueryObject",
   "toRestQueryStringParameters"}

(* C14: when two callers interleave their chains of transitions and reads, *)
(* both starting from the shared DEFAULT, each caller holds the descriptor *)
(* its own chain gives when run alone, each read returns what it returns   *)
(* on that descriptor, and DEFAULT is as it was constructed.               *)
C14_CallersIsolated ==
  /\ heap[1] = DEFAULT
  /\ \A c \in Callers : heap[cur[c]] = Replay(hist[cur[c]])
  /\ call.op \in TransitionOps =>
       /\ cur[call.caller] = call.ret.val
       /\ hist[call.ret.val] =
            Append(hist[call.recv], [op |-> call.op, a1 |-> call.a1, a2 |-> call.a2])
  /\ call.op \in ConcReads =>
       /\ call.recv = cur[call.caller]
       /\ SameOutcome(call.ret, ReadAlone(call.op, Replay(hist[call.recv])))

\* a made a transition on DEFAULT, then b made another on DEFAULT, then a
\* went on, and b has read its own descriptor
C14_Witness ==
  /\ cur["a"] = 4
  /\ cur["b"] = 3
  /\ Len(hist[4]) = 2
  /\ hist[3] # <<hist[4][1]>>
  /\ call.caller = "b"
  /\ call.op = "getQueryObject"

-----------------------------------------------------------------------------
(* isPartialObserver *)

\* typeof of a member's value
MemberKinds == {"function", "object", "undefined"}

MemberNames == {"next", "error", "complete", "toString"}

\* the members `in` finds on a value, each with the typeof of its value
Members == UNION {[S -> MemberKinds] : S \in SUBSET MemberNames}

\* AnyJs: a value is its typeof, whether it is null, and its members
AnyJs ==
  {[typeof |-> t, isNull |-> FALSE, members |-> m] :
     t \in {"object", "function"}, m \in Members}
  \cup {[typeof |-> "object", isNull |-> TRUE, members |-> EmptyObject]}
  \cup {[typeof |-> t, isNull |-> FALSE, members |-> EmptyObject] :
          t \in {"undefined", "string", "number", "boolean"}}

implementsAllMethods(obj, methods) ==
  IF obj.typeof # "object" \/ obj.isNull
    THEN FALSE
    ELSE \A k \in 1..Len(methods) :
           /\ methods[k] \in DOMAIN obj.members
           /\ obj.members[methods[k]] = "function"

RECURSIVE implementsAnyMethodsFrom(_, _, _)
implementsAnyMethodsFrom(object, methods, k) ==
  IF k > Len(methods)
    THEN FALSE
    ELSE IF /\ methods[k] \in DOMAIN object.members
            /\ object.members[methods[k]] = "function"
           THEN TRUE
           ELSE implementsAnyMethodsFrom(object, methods, k + 1)

implementsAnyMethods(obj, methods) ==
  IF obj.typeof # "object" \/ obj.isNull
    THEN FALSE
    ELSE implementsAnyMethodsFrom(obj, methods, 1)

isPartialObserver(obj) ==
  implementsAnyMethods(obj, <<"next", "error", "complete">>)

IsPartialObserver(obj) ==
  /\ call' = [op |-> "isPartialObserver", caller |-> "a", recv |-> 0,
              a1 |-> obj, a2 |-> "", ret |-> Return(isPartialObserver(obj))]
  /\ UNCHANGED <<heap, cur, hist, pre>>

NextObserver == \E obj \in AnyJs : IsPartialObserver(obj)

SpecObserver == Init /\ [][NextObserver]_vars

ObserverMethods == {"next", "error", "complete"}

\* the observer members of obj that are present and callable
CallableMembers(obj) ==
  {m \in ObserverMethods \cap DOMAIN obj.members : obj.members[m] = "function"}

(* C15: isPartialObserver(obj) returns true if and only if obj is a       *)
(* non-null object (typeof obj is 'object') on which at least one of next, *)
(* error, complete is present and is a function; it returns false for     *)
(* null, for values that are not objects, and for objects on which those   *)
(* members are absent or not callable. It never throws.                    *)
C15_PartialObserver ==
  call.op = "isPartialObserver" =>
    LET obj == call.a1
    IN /\ ~call.ret.throw
       /\ call.ret.val \in BOOLEAN
       /\ call.ret.val <=>
            (obj.typeof = "object" /\ ~obj.isNull /\ CallableMembers(obj) # {})
       /\ obj.isNull => ~call.ret.val
       /\ obj.typeof # "object" => ~call.ret.val
       /\ CallableMembers(obj) = {} => ~call.ret.val

\* an object whose next is present but not callable and whose complete is a
\* function
C15_Witness ==
  /\ call.op = "isPartialObserver"
  /\ call.a1.typeof = "object"
  /\ ~call.a1.isNull
  /\ DOMAIN call.a1.members = {"next", "complete", "toString"}
  /\ call.a1.members["next"] = "object"
  /\ call.a1.members["complete"] = "function"
  /\ call.ret = Return(TRUE)

(* C16: in every reachable descriptor whose limit has no explicit anchor   *)
(* (limit() was the most recent limit transition), only one of the start   *)
(* bound and the end bound is set, never both.                             *)
C16_UnanchoredLimitOneBound ==
  \A i \in Refs :
    (LastLimitOp(i) = "limit" /\ hasLimit(heap[i]) /\ ~hasAnchoredLimit(heap[i]))
      => ~(hasStart(heap[i]) /\ hasEnd(heap[i]))

(* C17: for every reachable descriptor with a limit, the wire rendering    *)
(* and the REST rendering commit to the same side: the wire view-from      *)
(* token is 'l' exactly when the REST parameters carry limitToFirst, 'r'   *)
(* exactly when they carry limitToLast, and both carry the same limit.     *)
C17_WireAndRestSameSide ==
  \A i \in Refs :
    hasLimit(heap[i]) =>
      LET wire == getQueryObject(heap[i])
          rest == toRestQueryStringParameters(heap[i]).val
          first == "limitToFirst" \in DOMAIN rest
          last == "limitToLast" \in DOMAIN rest
      IN /\ {"l", "vf"} \subseteq DOMAIN wire
         /\ wire["vf"] \in {VIEW_FROM_LEFT, VIEW_FROM_RIGHT}
         /\ wire["vf"] = VIEW_FROM_LEFT <=> first
         /\ wire["vf"] = VIEW_FROM_RIGHT <=> last
         /\ first => rest["limitToFirst"] = wire["l"]
         /\ last => rest["limitToLast"] = wire["l"]

\* limitToFirst, then an end bound, then limit(): both renderings infer the
\* right side from the bounds
C17_Witness ==
  \E i \in Refs :
    /\ Len(hist[i]) = 3
    /\ hist[i][1].op = "limitToFirst"
    /\ hist[i][2].op = "endAt"
    /\ hist[i][3].op = "limit"
    /\ getQueryObject(heap[i])["vf"] = VIEW_FROM_RIGHT
    /\ "limitToLast" \in DOMAIN toRestQueryStringParameters(heap[i]).val

(* C18: every descriptor reachable from DEFAULT satisfies: the start       *)
(* tie-break key is set only if the start bound is set, the end tie-break  *)
(* key is set only if the end bound is set, the anchor is one of unset,    *)
(* left, right, and the anchor is explicit only if a limit is set.         *)
C18_FlagsWellFormed ==
  \A i \in Refs :
    LET d == heap[i]
    IN /\ d.startNameSet_ => d.startSet_
       /\ d.endNameSet_ => d.endSet_
       /\ d.viewFrom_ \in {"", VIEW_FROM_LEFT, VIEW_FROM_RIGHT}
       /\ d.viewFrom_ # "" => d.limitSet_

\* a descriptor with both tie-break keys and an explicit anchor
C18_Witness ==
  \E i \in Refs :
    /\ Len(hist[i]) = 3
    /\ heap[i].startNameSet_
    /\ heap[i].endNameSet_
    /\ heap[i].viewFrom_ = VIEW_FROM_RIGHT
    /\ heap[i].limitSet_

====
